---- MODULE Spec2Model ----
(***************************************************************************)
(* Model of log_dashboard.py: LogMonitor, its per-source tailer threads    *)
(* (monitor_file) and the curses render loop (display_dashboard.main).     *)
(*                                                                         *)
(* A file is a sequence of one-character strings.  A buffer entry is a     *)
(* record standing for the formatted string the code builds:               *)
(*   [fmt |-> "log", ts, name |-> "", text]  is  "[ts] text"               *)
(*   [fmt |-> "err", ts, name, text]         is  "[ts] name: text"         *)
(*   [fmt |-> "msg", ts |-> -1, name |-> "", text |-> cause]               *)
(*                                           is  "Error reading file: ..." *)
(***************************************************************************)
EXTENDS Integers, Sequences, FiniteSets, TLC

\* ------------------------------------------------------------ bounds
MaxEnvOps == 1        \* file appends, truncations and removals in a run of Spec
MaxFaults == 1        \* injected I/O errors in a run
TailEnvOps == 2       \* file appends, truncations and removals in a run of SpecTail
MaxTicks == 1         \* clock seconds that pass in a run of SpecTail
RingEnvOps == 3       \* file appends, truncations and removals in a run of SpecRing

\* ------------------------------------------------- program constants
buffer_size == 1000
error_buffer_size == 500
DaySeconds == 86400

\* ---------------------------------------------------------- text helpers
Whitespace == {" ", "\n", "\t", "\r"}

\* str.lower() on the letters the pattern needs
Lower(c) ==
  CASE c = "E" -> "e"
    [] c = "R" -> "r"
    [] c = "O" -> "o"
    [] OTHER -> c

RECURSIVE lstrip(_)
lstrip(s) ==
  IF s = <<>> THEN <<>>
  ELSE IF Head(s) \in Whitespace THEN lstrip(Tail(s)) ELSE s

RECURSIVE rstrip(_)
rstrip(s) ==
  IF s = <<>> THEN <<>>
  ELSE IF s[Len(s)] \in Whitespace THEN rstrip(SubSeq(s, 1, Len(s) - 1)) ELSE s

\* line.strip()
strip(s) == rstrip(lstrip(s))

\* re.compile(r'error', re.IGNORECASE)
error_pattern == <<"e", "r", "r", "o", "r">>

\* is_error_message: error_pattern.search(line)
is_error_message(line) ==
  \E i \in 1..(Len(line) - Len(error_pattern) + 1) :
     [k \in 1..Len(error_pattern) |-> Lower(line[i + k - 1])] = error_pattern

\* index of the first line terminator of s, or Len(s) when there is none
LineEnd(s) ==
  IF \E i \in 1..Len(s) : s[i] = "\n"
  THEN CHOOSE i \in 1..Len(s) : s[i] = "\n" /\ \A j \in 1..(i - 1) : s[j] # "\n"
  ELSE Len(s)

\* f.readlines() on the text s: every line with its terminator, and a last
\* line without one when the text does not end in a terminator
RECURSIVE readlines(_)
readlines(s) ==
  IF s = <<>> THEN <<>>
  ELSE <<SubSeq(s, 1, LineEnd(s))>> \o readlines(SubSeq(s, LineEnd(s) + 1, Len(s)))

\* f.seek(pos) followed by a read to end of file: the text from pos on
\* (nothing when pos is at or beyond the end)
seek_read(data, pos) ==
  IF pos >= Len(data) THEN <<>> ELSE SubSeq(data, pos + 1, Len(data))

\* datetime.now().strftime('%H:%M:%S'): the time of day, without the date
strftime(t) == t % DaySeconds

\* f"[{timestamp}] {line.strip()}"
formatted_line(t, line) ==
  [fmt |-> "log", ts |-> strftime(t), name |-> "", text |-> strip(line)]

\* f"[{timestamp}] {name}: {line.strip()}"
error_line(ts, n, line) ==
  [fmt |-> "err", ts |-> ts, name |-> n, text |-> strip(line)]

\* f"Error reading file: {e}"
error_msg(e) == [fmt |-> "msg", ts |-> -1, name |-> "", text |-> e]

\* a mutated deque: append never evicts
deque_append_unbounded(d, x, maxlen) == Append(d, x)

\* deque(maxlen=maxlen).append(x): the oldest item leaves a full deque
deque_append(d, x, maxlen) ==
  IF Len(d) >= maxlen THEN Append(Tail(d), x) ELSE Append(d, x)

\* the last k items of s
LastN(s, k) == IF Len(s) <= k THEN s ELSE SubSeq(s, Len(s) - k + 1, Len(s))

\* the code point of a character (ord), for the characters the entries hold
Ord(c) ==
  CASE c = "\t" -> 9   [] c = "\n" -> 10  [] c = "\r" -> 13  [] c = " " -> 32
    [] c = "0" -> 48   [] c = "1" -> 49   [] c = "2" -> 50   [] c = "3" -> 51
    [] c = "4" -> 52   [] c = "5" -> 53   [] c = "6" -> 54   [] c = "7" -> 55
    [] c = "8" -> 56   [] c = "9" -> 57   [] c = ":" -> 58   [] c = "E" -> 69
    [] c = "O" -> 79   [] c = "R" -> 82   [] c = "[" -> 91   [] c = "]" -> 93
    [] c = "a" -> 97   [] c = "b" -> 98   [] c = "c" -> 99   [] c = "d" -> 100
    [] c = "e" -> 101  [] c = "f" -> 102  [] c = "g" -> 103  [] c = "i" -> 105
    [] c = "l" -> 108  [] c = "n" -> 110  [] c = "o" -> 111  [] c = "p" -> 112
    [] c = "r" -> 114

\* two decimal digits, zero padded: the %H, %M and %S fields
TwoDigits(k) ==
  LET digit == <<"0", "1", "2", "3", "4", "5", "6", "7", "8", "9">>
  IN <<digit[(k \div 10) + 1], digit[(k % 10) + 1]>>

\* the text strftime('%H:%M:%S') gives for the time of day ts
timestamp_text(ts) ==
  TwoDigits(ts \div 3600) \o <<":">> \o TwoDigits((ts \div 60) % 60) \o <<":">>
    \o TwoDigits(ts % 60)

\* the characters of a source name and of str(e) for the exceptions raised
name_text(n) == IF n = "app" THEN <<"a", "p", "p">> ELSE <<"d", "b">>
cause_text(e) ==
  <<"[", "E", "r", "r", "n", "o", " ">>
    \o (IF e = "FileNotFoundError" THEN <<"2">> ELSE <<"5">>) \o <<"]">>

\* the string a buffer entry is: formatted_line, the error entry, error_msg
entry_text(x) ==
  CASE x.fmt = "log" -> <<"[">> \o timestamp_text(x.ts) \o <<"]", " ">> \o x.text
    [] x.fmt = "err" -> <<"[">> \o timestamp_text(x.ts) \o <<"]", " ">>
                          \o name_text(x.name) \o <<":", " ">> \o x.text
    [] x.fmt = "msg" -> <<"E", "r", "r", "o", "r", " ", "r", "e", "a", "d", "i",
                          "n", "g", " ", "f", "i", "l", "e", ":", " ">>
                          \o cause_text(x.text)

\* a < b for two strings: by code point at the first difference, else by length
str_less(a, b) ==
  LET m == IF Len(a) < Len(b) THEN Len(a) ELSE Len(b)
      d == {i \in 1..m : a[i] # b[i]}
  IN IF d = {} THEN Len(a) < Len(b)
     ELSE LET i == CHOOSE j \in d : \A k \in d : j <= k
          IN Ord(a[i]) < Ord(b[i])

\* x put into the descending list r behind the items that are not less than it
RECURSIVE insert_desc(_, _)
insert_desc(r, x) ==
  IF r = <<>> THEN <<x>>
  ELSE IF str_less(entry_text(Head(r)), entry_text(x)) THEN <<x>> \o r
  ELSE <<Head(r)>> \o insert_desc(Tail(r), x)

\* list.sort(reverse=True) on a list of entries: descending by the whole
\* string, equal strings in their original order
RECURSIVE sort_reverse(_)
sort_reverse(s) ==
  IF s = <<>> THEN <<>>
  ELSE insert_desc(sort_reverse(SubSeq(s, 1, Len(s) - 1)), s[Len(s)])

\* the Python slice s[k:]: from index k when k >= 0, the last -k items when
\* k < 0
slice_from(s, k) ==
  IF k >= 0 THEN (IF k >= Len(s) THEN <<>> ELSE SubSeq(s, k + 1, Len(s)))
  ELSE LastN(s, 0 - k)

\* ------------------------------------------------------------ state
Names == {"app", "db"}

\* the configurations load_config can produce: the sources in file order
Configs == {<<>>, <<"app">>, <<"app", "db">>}

\* what the environment appends to a file in one write
Chunks ==
  { <<"a", "\n">>,
    <<" ", "e", "r">>,
    <<"r", "o", "r", " ", "\n">> }

\* the three-line file of the spec's scenario: "a", "ERROR b", "c"
ThreeLines == <<"a", "\n", "E", "R", "R", "O", "R", " ", "b", "\n", "c", "\n">>

NoFile == [exists |-> FALSE, data |-> <<>>, rewritten |-> FALSE]

\* the files when the program starts: app holds three lines, db is missing
InitialFile(n) ==
  IF n = "app" THEN [exists |-> TRUE, data |-> ThreeLines, rewritten |-> FALSE]
  ELSE NoFile

\* the wall clock when the program starts: one second before midnight
StartTime == DaySeconds - 1

VARIABLES
  log_files,        \* self.log_files: the configured names, in order
  file_positions,   \* self.file_positions
  log_buffers,      \* self.log_buffers
  error_buffers,    \* self.error_buffers
  running,          \* self.running
  current_view,     \* self.current_view
  tailer,           \* per source: the monitor_file thread's position and locals
  main,             \* the main thread: start_monitoring and display_dashboard
  files,            \* the file system: per source, whether the file exists, its text,
                    \* and (history) whether it was ever truncated or removed
  now,              \* the wall clock, in seconds
  budget,           \* what the environment may still do in this run
  hist_log,         \* history: every item appended to a source's log buffer
  hist_err,         \* history: every item appended to a source's error buffer
  cycle,            \* history: per source, the lines of the poll in progress
  snap,             \* history: the last list(...) the renderer completed
  stopped           \* history: per source, sleeps and reads begun after running fell

vars == <<log_files, file_positions, log_buffers, error_buffers, running,
          current_view, tailer, main, files, now, budget, hist_log, hist_err,
          cycle, snap, stopped>>

Sources == {log_files[i] : i \in 1..Len(log_files)}

\* the process is alive until the main thread leaves main()
ProcessAlive == main.pc \notin {"exited", "crashed"}

IdleTailer ==
  [pc |-> "unstarted", new_lines |-> <<>>, line |-> <<>>, timestamp |-> 0,
   e |-> "", tell |-> 0]

\* history of one poll: the lines read, the offset recorded (pos0) and the file
\* size (size0) when it read, the position it read from (start), how many
\* items had been pushed before it, and whether the open or the read raised
NoCycle ==
  [polled |-> FALSE, failed |-> FALSE, cause |-> "", lines |-> <<>>, log0 |-> 0,
   err0 |-> 0, pos0 |-> 0, size0 |-> 0, start |-> 0]

NoSnap == [name |-> "", buffer |-> "", items |-> <<>>, pushes |-> 0, inflight |-> FALSE]

MainStart ==
  [pc |-> "start", i |-> 1, height |-> 0, width |-> 0, log_height |-> 0,
   it_state |-> 0, all_errors |-> <<>>, total_errors |-> 0, exc |-> "",
   key |-> "", drawn |-> <<>>]

\* LogMonitor.__init__ and load_config, for a configuration c that loads
Construct(c) ==
  /\ log_files = c
  /\ file_positions = [n \in Sources |-> 0]
  /\ log_buffers = [n \in Sources |-> <<>>]
  /\ error_buffers = [n \in Sources |-> <<>>]
  /\ running = TRUE
  /\ current_view = "logs"
  /\ tailer = [n \in Sources |-> IdleTailer]
  /\ main = MainStart
  /\ hist_log = [n \in Sources |-> <<>>]
  /\ hist_err = [n \in Sources |-> <<>>]
  /\ cycle = [n \in Sources |-> NoCycle]
  /\ snap = NoSnap
  /\ stopped = [n \in Sources |-> [sleeps |-> 0, reads |-> 0]]

Init ==
  /\ \E c \in Configs : Construct(c)
  /\ files = [n \in Sources |-> InitialFile(n)]
  /\ now = StartTime
  /\ budget = [env |-> MaxEnvOps, faults |-> MaxFaults, ticks |-> 0,
               resize |-> FALSE]

\* the same program in an environment that writes more and whose clock moves
InitTail ==
  /\ \E c \in Configs : Construct(c)
  /\ files = [n \in Sources |-> InitialFile(n)]
  /\ now = StartTime
  /\ budget = [env |-> TailEnvOps, faults |-> MaxFaults, ticks |-> MaxTicks,
               resize |-> FALSE]

\* the same program with nothing else touching the files
InitLive ==
  /\ \E c \in Configs : Construct(c)
  /\ files = [n \in Sources |-> InitialFile(n)]
  /\ now = StartTime
  /\ budget = [env |-> 0, faults |-> MaxFaults, ticks |-> 0,
               resize |-> FALSE]

\* A run that has filled the buffers to just below their capacity: the file
\* held RingPairs pairs of a plain line and an error line, the tailer has
\* pushed them all and is between two polls, and the renderer is not drawing.
RingPairs == error_buffer_size - 1
RingPair == <<"a", "\n", "E", "R", "R", "O", "R", " ", "b", "\n">>
RingFile == [i \in 1..(Len(RingPair) * RingPairs) |-> RingPair[((i - 1) % Len(RingPair)) + 1]]
RingLog ==
  [i \in 1..(2 * RingPairs) |->
     formatted_line(StartTime, IF i % 2 = 1 THEN SubSeq(RingPair, 1, 2)
                               ELSE SubSeq(RingPair, 3, 10))]
RingErr ==
  [i \in 1..RingPairs |-> error_line(strftime(StartTime), "app", SubSeq(RingPair, 3, 10))]

InitRing ==
  /\ log_files = <<"app">>
  /\ file_positions = [n \in Sources |-> Len(RingFile)]
  /\ log_buffers = [n \in Sources |-> RingLog]
  /\ error_buffers = [n \in Sources |-> RingErr]
  /\ running = TRUE
  /\ current_view = "logs"
  /\ tailer = [n \in Sources |-> [IdleTailer EXCEPT !.pc = "while"]]
  /\ main = [MainStart EXCEPT !.pc = "loop"]
  /\ hist_log = [n \in Sources |-> RingLog]
  /\ hist_err = [n \in Sources |-> RingErr]
  /\ cycle = [n \in Sources |-> NoCycle]
  /\ snap = NoSnap
  /\ stopped = [n \in Sources |-> [sleeps |-> 0, reads |-> 0]]
  /\ files = [n \in Sources |-> [exists |-> TRUE, data |-> RingFile, rewritten |-> FALSE]]
  /\ now = StartTime
  /\ budget = [env |-> RingEnvOps, faults |-> MaxFaults, ticks |-> 0,
               resize |-> FALSE]

\* What a tailer has been through before the renderer is looked at alone: a
\* sequence of lines read at a time t and of failed reads.
ViewLine(t, text) == [kind |-> "line", t |-> t, text |-> text, cause |-> ""]
ViewFail(cause) == [kind |-> "fail", t |-> 0, text |-> <<>>, cause |-> cause]

ErrorLineB == <<"E", "R", "R", "O", "R", " ", "b", "\n">>
ErrorLineLower == <<" ", "e", "r", "r", "o", "r", " ", "\n">>

ViewRuns ==
  { <<>>,
    <<ViewLine(StartTime, <<"a", "\n">>), ViewLine(StartTime, ErrorLineB),
      ViewLine(StartTime, <<"c", "\n">>)>>,
    <<ViewLine(StartTime - 1, ErrorLineB), ViewFail("OSError"),
      ViewLine(StartTime, ErrorLineLower), ViewLine(StartTime + 1, <<"c", "\n">>)>>,
    <<ViewLine(StartTime - 1, ErrorLineB), ViewLine(StartTime - 1, ErrorLineLower),
      ViewLine(StartTime - 1, <<"a", "\n">>), ViewLine(StartTime, ErrorLineLower),
      ViewLine(StartTime, ErrorLineB), ViewLine(StartTime, ErrorLineB),
      ViewLine(StartTime + 1, ErrorLineB), ViewLine(StartTime + 1, ErrorLineLower)>> }

\* the pushes of lines 65 and 77 for such a run
view_log(run) ==
  [k \in 1..Len(run) |->
     IF run[k].kind = "line" THEN formatted_line(run[k].t, run[k].text)
     ELSE error_msg(run[k].cause)]

\* the pushes of lines 69 and 78 for such a run
RECURSIVE view_err(_, _)
view_err(run, n) ==
  IF run = <<>> THEN <<>>
  ELSE (IF Head(run).kind = "fail" THEN <<error_msg(Head(run).cause)>>
        ELSE IF is_error_message(Head(run).text)
        THEN <<error_line(strftime(Head(run).t), n, Head(run).text)>>
        ELSE <<>>) \o view_err(Tail(run), n)

\* the text of the file such a run has read
RECURSIVE view_file(_)
view_file(run) ==
  IF run = <<>> THEN <<>> ELSE Head(run).text \o view_file(Tail(run))

\* The renderer alone, between two polls: every tailer has pushed what one of
\* the runs above gives and is at its loop head, the main thread enters the
\* render loop, and the terminal may be small.
InitView ==
  /\ log_files \in Configs
  /\ \E run \in [Sources -> ViewRuns] :
       /\ log_buffers = [n \in Sources |-> view_log(run[n])]
       /\ error_buffers = [n \in Sources |-> view_err(run[n], n)]
       /\ files = [n \in Sources |->
                     [exists |-> TRUE, data |-> view_file(run[n]),
                      rewritten |-> FALSE]]
  /\ hist_log = log_buffers
  /\ hist_err = error_buffers
  /\ file_positions = [n \in Sources |-> Len(files[n].data)]
  /\ running = TRUE
  /\ current_view = "logs"
  /\ tailer = [n \in Sources |-> [IdleTailer EXCEPT !.pc = "while"]]
  /\ main = [MainStart EXCEPT !.pc = "loop"]
  /\ cycle = [n \in Sources |-> NoCycle]
  /\ snap = NoSnap
  /\ stopped = [n \in Sources |-> [sleeps |-> 0, reads |-> 0]]
  /\ now = StartTime + 1
  /\ budget = [env |-> 0, faults |-> 0, ticks |-> 0, resize |-> TRUE]

\* --------------------------------------------------- the environment
\* another process appends a chunk to the file (creating it if need be)
EnvAppend(n) ==
  /\ ProcessAlive
  /\ budget.env > 0
  /\ \E c \in Chunks :
       files' = [files EXCEPT ![n] = [exists |-> TRUE, data |-> files[n].data \o c,
                                      rewritten |-> files[n].rewritten]]
  /\ budget' = [budget EXCEPT !.env = @ - 1]
  /\ UNCHANGED <<log_files, file_positions, log_buffers, error_buffers, running,
                 current_view, tailer, main, now, hist_log, hist_err, cycle, snap,
                 stopped>>

\* another process truncates the file (log rotation in place)
EnvTruncate(n) ==
  /\ ProcessAlive
  /\ budget.env > 0
  /\ files[n].exists
  /\ files[n].data # <<>>
  /\ files' = [files EXCEPT ![n] = [exists |-> TRUE, data |-> <<>>,
                                    rewritten |-> TRUE]]
  /\ budget' = [budget EXCEPT !.env = @ - 1]
  /\ UNCHANGED <<log_files, file_positions, log_buffers, error_buffers, running,
                 current_view, tailer, main, now, hist_log, hist_err, cycle, snap,
                 stopped>>

\* another process removes the file
EnvRemove(n) ==
  /\ ProcessAlive
  /\ budget.env > 0
  /\ files[n].exists
  /\ files' = [files EXCEPT ![n] = [NoFile EXCEPT !.rewritten = TRUE]]
  /\ budget' = [budget EXCEPT !.env = @ - 1]
  /\ UNCHANGED <<log_files, file_positions, log_buffers, error_buffers, running,
                 current_view, tailer, main, now, hist_log, hist_err, cycle, snap,
                 stopped>>

\* a second passes on the wall clock
Tick ==
  /\ ProcessAlive
  /\ budget.ticks > 0
  /\ now' = now + 1
  /\ budget' = [budget EXCEPT !.ticks = @ - 1]
  /\ UNCHANGED <<log_files, file_positions, log_buffers, error_buffers, running,
                 current_view, tailer, main, files, hist_log, hist_err, cycle, snap,
                 stopped>>

\* ------------------------------------------- monitor_file(name, path)
\* a mutated loop head: the loop never looks at the flag
T_While_forever(n) ==
  /\ ProcessAlive
  /\ tailer[n].pc = "while"
  /\ tailer' = [tailer EXCEPT ![n].pc = "exists"]
  /\ UNCHANGED <<log_files, file_positions, log_buffers, error_buffers, running,
                 current_view, main, files, now, budget, hist_log, hist_err, cycle,
                 snap, stopped>>

\* a mutated loop head: the tailer turns the flag on again
T_While_sets_flag(n) ==
  /\ ProcessAlive
  /\ tailer[n].pc = "while"
  /\ running' = TRUE
  /\ tailer' = [tailer EXCEPT ![n].pc = "exists"]
  /\ UNCHANGED <<log_files, file_positions, log_buffers, error_buffers,
                 current_view, main, files, now, budget, hist_log, hist_err, cycle,
                 snap, stopped>>

\* while self.running:
T_While(n) ==
  /\ ProcessAlive
  /\ tailer[n].pc = "while"
  /\ tailer' = [tailer EXCEPT ![n].pc = IF running THEN "exists" ELSE "done"]
  /\ UNCHANGED <<log_files, file_positions, log_buffers, error_buffers, running,
                 current_view, main, files, now, budget, hist_log, hist_err, cycle,
                 snap, stopped>>

\* if not path.exists(): time.sleep(1); continue
T_Exists(n) ==
  /\ ProcessAlive
  /\ tailer[n].pc = "exists"
  /\ tailer' = [tailer EXCEPT ![n].pc = IF files[n].exists THEN "open" ELSE "sleep_1"]
  /\ UNCHANGED <<log_files, file_positions, log_buffers, error_buffers, running,
                 current_view, main, files, now, budget, hist_log, hist_err, cycle,
                 snap, stopped>>

\* the position the read of monitor_file starts from: f.seek(self.file_positions[name])
T_Open_seek(n) == file_positions[n]

\* with open(path, 'r') as f: f.seek(...); new_lines = f.readlines()
\* The open raises when the file is gone since the exists() check; the open
\* or the read raises when the environment injects an I/O error.
T_Open(n) ==
  /\ ProcessAlive
  /\ tailer[n].pc = "open"
  /\ \E fault \in BOOLEAN :
       /\ fault => (budget.faults > 0 /\ files[n].exists)
       /\ budget' = [budget EXCEPT !.faults = IF fault THEN @ - 1 ELSE @]
       /\ IF ~files[n].exists \/ fault
          THEN /\ tailer' = [tailer EXCEPT
                     ![n].pc = "except",
                     ![n].e = IF fault THEN "OSError" ELSE "FileNotFoundError"]
               /\ cycle' = [cycle EXCEPT ![n] =
                     [polled |-> TRUE, failed |-> TRUE,
                      cause |-> IF fault THEN "OSError" ELSE "FileNotFoundError",
                      lines |-> <<>>,
                      log0 |-> Len(hist_log[n]), err0 |-> Len(hist_err[n]),
                      pos0 |-> file_positions[n], size0 |-> Len(files[n].data),
                      start |-> 0]]
          ELSE LET lines == readlines(seek_read(files[n].data, T_Open_seek(n)))
               IN /\ tailer' = [tailer EXCEPT
                        ![n].pc = IF lines = <<>> THEN "sleep_01" ELSE "line",
                        ![n].new_lines = lines,
                        ![n].tell = IF lines = <<>> THEN 0 ELSE Len(files[n].data)]
                  /\ cycle' = [cycle EXCEPT ![n] =
                        [polled |-> TRUE, failed |-> FALSE, cause |-> "",
                         lines |-> lines,
                         log0 |-> Len(hist_log[n]), err0 |-> Len(hist_err[n]),
                         pos0 |-> file_positions[n], size0 |-> Len(files[n].data),
                         start |-> T_Open_seek(n)]]
  /\ stopped' = [stopped EXCEPT ![n].reads = IF running \/ @ >= 2 THEN @ ELSE @ + 1]
  /\ UNCHANGED <<log_files, file_positions, log_buffers, error_buffers, running,
                 current_view, main, files, now, hist_log, hist_err, snap>>

\* for line in new_lines: timestamp = ...; self.log_buffers[name].append(formatted_line)
T_Line(n) ==
  /\ ProcessAlive
  /\ tailer[n].pc = "line"
  /\ LET line == Head(tailer[n].new_lines)
         rest == Tail(tailer[n].new_lines)
         item == formatted_line(now, line)
     IN /\ log_buffers' = [log_buffers EXCEPT ![n] = deque_append(@, item, buffer_size)]
        /\ hist_log' = [hist_log EXCEPT ![n] = Append(@, item)]
        /\ tailer' = [tailer EXCEPT
              ![n].line = IF is_error_message(line) THEN line ELSE <<>>,
              ![n].timestamp = IF is_error_message(line) THEN strftime(now) ELSE 0,
              ![n].new_lines = rest,
              ![n].pc = IF is_error_message(line) THEN "error_line"
                        ELSE IF rest = <<>> THEN "tell" ELSE "line"]
  /\ UNCHANGED <<log_files, file_positions, error_buffers, running, current_view,
                 main, files, now, budget, hist_err, cycle, snap, stopped>>

\* a mutated error entry: the timestamp is taken again instead of reused
error_entry_fresh_timestamp(n) == error_line(strftime(now), n, tailer[n].line)

\* the entry of lines 69-71: the log entry's timestamp, the name, the trimmed line
error_entry(n) == error_line(tailer[n].timestamp, n, tailer[n].line)

\* if self.is_error_message(line): self.error_buffers[name].append(...)
T_ErrorLine(n) ==
  /\ ProcessAlive
  /\ tailer[n].pc = "error_line"
  /\ error_buffers' = [error_buffers EXCEPT
        ![n] = deque_append(@, error_entry(n), error_buffer_size)]
  /\ hist_err' = [hist_err EXCEPT ![n] = Append(@, error_entry(n))]
  /\ tailer' = [tailer EXCEPT
        ![n].pc = IF tailer[n].new_lines = <<>> THEN "tell" ELSE "line",
        ![n].line = <<>>,
        ![n].timestamp = 0]
  /\ UNCHANGED <<log_files, file_positions, log_buffers, running, current_view,
                 main, files, now, budget, hist_log, cycle, snap, stopped>>

\* a mutated offset update: the number of characters read is recorded
\* instead of the position in the file
T_Tell_relative(n) ==
  /\ ProcessAlive
  /\ tailer[n].pc = "tell"
  /\ file_positions' = [file_positions EXCEPT ![n] = tailer[n].tell - @]
  /\ tailer' = [tailer EXCEPT ![n].pc = "sleep_01", ![n].tell = 0]
  /\ UNCHANGED <<log_files, log_buffers, error_buffers, running, current_view,
                 main, files, now, budget, hist_log, hist_err, cycle, snap, stopped>>

\* self.file_positions[name] = f.tell()
T_Tell(n) ==
  /\ ProcessAlive
  /\ tailer[n].pc = "tell"
  /\ file_positions' = [file_positions EXCEPT ![n] = tailer[n].tell]
  /\ tailer' = [tailer EXCEPT ![n].pc = "sleep_01", ![n].tell = 0]
  /\ UNCHANGED <<log_files, log_buffers, error_buffers, running, current_view,
                 main, files, now, budget, hist_log, hist_err, cycle, snap, stopped>>

\* time.sleep(0.1) after a read, time.sleep(1) after a missing file or an error
T_Sleep(n) ==
  /\ ProcessAlive
  /\ tailer[n].pc \in {"sleep_01", "sleep_1"}
  /\ tailer' = [tailer EXCEPT ![n].pc = "while"]
  /\ stopped' = [stopped EXCEPT ![n].sleeps = IF running \/ @ >= 2 THEN @ ELSE @ + 1]
  /\ cycle' = [cycle EXCEPT ![n] = NoCycle]
  /\ UNCHANGED <<log_files, file_positions, log_buffers, error_buffers, running,
                 current_view, main, files, now, budget, hist_log, hist_err, snap>>

\* except Exception as e: self.log_buffers[name].append(error_msg)
T_Except(n) ==
  /\ ProcessAlive
  /\ tailer[n].pc = "except"
  /\ log_buffers' = [log_buffers EXCEPT
        ![n] = deque_append(@, error_msg(tailer[n].e), buffer_size)]
  /\ hist_log' = [hist_log EXCEPT ![n] = Append(@, error_msg(tailer[n].e))]
  /\ tailer' = [tailer EXCEPT ![n].pc = "except_2"]
  /\ UNCHANGED <<log_files, file_positions, error_buffers, running, current_view,
                 main, files, now, budget, hist_err, cycle, snap, stopped>>

\* a mutated handler: the message goes to the log buffer only
T_Except2_log_only(n) ==
  /\ ProcessAlive
  /\ tailer[n].pc = "except_2"
  /\ tailer' = [tailer EXCEPT ![n].pc = "sleep_1", ![n].e = ""]
  /\ UNCHANGED <<log_files, file_positions, log_buffers, error_buffers, running,
                 current_view, main, files, now, budget, hist_log, hist_err, cycle,
                 snap, stopped>>

\* self.error_buffers[name].append(error_msg)
T_Except2(n) ==
  /\ ProcessAlive
  /\ tailer[n].pc = "except_2"
  /\ error_buffers' = [error_buffers EXCEPT
        ![n] = deque_append(@, error_msg(tailer[n].e), error_buffer_size)]
  /\ hist_err' = [hist_err EXCEPT ![n] = Append(@, error_msg(tailer[n].e))]
  /\ tailer' = [tailer EXCEPT ![n].pc = "sleep_1", ![n].e = ""]
  /\ UNCHANGED <<log_files, file_positions, log_buffers, running, current_view,
                 main, files, now, budget, hist_log, cycle, snap, stopped>>

\* one step of the thread that runs monitor_file(n, path)
monitor_file(n) ==
  \/ T_While(n)
  \/ T_Exists(n)
  \/ T_Open(n)
  \/ T_Line(n)
  \/ T_ErrorLine(n)
  \/ T_Tell(n)
  \/ T_Sleep(n)
  \/ T_Except(n)
  \/ T_Except2(n)

\* ------------------------------------------------------- the terminal
\* the sizes stdscr.getmaxyx() returns: <<height, width>>
TermSizes == {<<24, 80>>, <<24, 40>>}

\* a terminal the user has made small
SmallTermSizes == {<<10, 80>>}

\* the sizes getmaxyx() can return in this run
Terminals == TermSizes \cup (IF budget.resize THEN SmallTermSizes ELSE {})

\* the keys stdscr.getch() returns; "" is no key within the timeout
Keys == {"q", "e", "x", ""}

\* len(name) and len(str(path)) of the configured sources
NameLen(n) == IF n = "app" THEN 3 ELSE 2
PathLen(n) == IF n = "app" THEN 16 ELSE 15

\* the decimal digits of a count
Digits(k) == IF k < 10 THEN 1 ELSE IF k < 100 THEN 2 ELSE IF k < 1000 THEN 3 ELSE 4

\* win.addstr(y, x, s) with len(s) = len raises curses.error when the
\* position is outside the h x w window or the text reaches its last cell
addstr_raises(y, x, len, h, w) ==
  \/ y < 0 \/ y >= h
  \/ x < 0 \/ x >= w
  \/ y * w + x + len >= h * w

\* len('┌' + '─' * (width - 2) + '┐')
BorderLen(bw) == 2 + (IF bw > 2 THEN bw - 2 ELSE 0)

\* draw_box(win, y, x, height, width) raises when one of its addstr does
draw_box_raises(y, x, bh, bw, h, w) ==
  \/ addstr_raises(y, x, BorderLen(bw), h, w)
  \/ \E i \in 1..(bh - 2) :
        \/ addstr_raises(y + i, x, 1, h, w)
        \/ addstr_raises(y + i, x + bw - 1, 1, h, w)
  \/ addstr_raises(y + bh - 1, x, BorderLen(bw), h, w)

\* lines 189-200: the header, the status line and the instructions
header_raises(h, w) ==
  \/ addstr_raises(0, (w - 18) \div 2, 18, h, w)
  \/ addstr_raises(1, 2, 17 + Digits(Len(log_files)), h, w)
  \/ addstr_raises(1, w - 44 - 2, 44, h, w)

\* lines 125-135 of display_logs for the source drawn at row y
panel_raises(n, y, h, w) ==
  \/ draw_box_raises(y, 0, main.log_height, w, h, w)
  \/ addstr_raises(y, 2, NameLen(n) + PathLen(n) + 5, h, w)
  \/ /\ Len(error_buffers[n]) > 0
     /\ addstr_raises(y, NameLen(n) + PathLen(n) + 5 + 2,
                      9 + Digits(Len(error_buffers[n])), h, w)

\* lines 166-169 of display_errors
summary_raises(h, w) ==
  \/ draw_box_raises(2, 0, h - 3, w, h, w)
  \/ addstr_raises(2, 2, 25 + Digits(main.total_errors), h, w)

\* display_logs, lines 138-151, for the i-th panel: the lines of the slice
\* that pass the row test, each with the row it is written to
log_rows(buffer, i, log_height, height) ==
  LET current_y == 2 + (i - 1) * log_height
      display_lines == slice_from(buffer, 3 - log_height)
      fit == {k \in 1..Len(display_lines) : current_y + (k - 1) + 1 < height - 1}
  IN [k \in 1..Cardinality(fit) |->
        [row |-> current_y + k, entry |-> display_lines[k], panel |-> i]]

\* display_errors, lines 172-178: the entries that pass the row test
error_rows(all_errors, height) ==
  LET fit == {k \in 1..Len(all_errors) : (k - 1) + 4 < height - 1}
  IN [k \in 1..Cardinality(fit) |->
        [row |-> k + 3, entry |-> all_errors[k], panel |-> 0]]

\* ------------------------------------------------------ the main thread
Crash(kind) == [main EXCEPT !.pc = "crashed", !.exc = kind]

\* the tailer has read lines or caught an error and not yet pushed everything
InFlight(n) == tailer[n].pc \in {"line", "error_line", "except", "except_2"}

\* start_monitoring, lines 84-91: one thread per source, started in order
M_StartThread ==
  /\ main.pc = "start"
  /\ main.i <= Len(log_files)
  /\ tailer' = [tailer EXCEPT ![log_files[main.i]].pc = "while"]
  /\ main' = [main EXCEPT !.i = @ + 1]
  /\ UNCHANGED <<log_files, file_positions, log_buffers, error_buffers, running,
                 current_view, files, now, budget, hist_log, hist_err, cycle, snap,
                 stopped>>

\* self.display_dashboard(): curses.wrapper(main) up to the render loop
M_Display ==
  /\ main.pc = "start"
  /\ main.i > Len(log_files)
  /\ main' = [main EXCEPT !.pc = "loop", !.i = 1]
  /\ UNCHANGED <<log_files, file_positions, log_buffers, error_buffers, running,
                 current_view, tailer, files, now, budget, hist_log, hist_err, cycle,
                 snap, stopped>>

\* a mutated render loop: the loop does not look at the flag
M_Loop_forever ==
  /\ main.pc = "loop"
  /\ main' = [main EXCEPT !.pc = "frame"]
  /\ UNCHANGED <<log_files, file_positions, log_buffers, error_buffers, running,
                 current_view, tailer, files, now, budget, hist_log, hist_err, cycle,
                 snap, stopped>>

\* while self.running: ... ; when it ends display_dashboard, start_monitoring
\* and main() return and the process exits, taking the daemon threads with it
M_Loop ==
  /\ main.pc = "loop"
  /\ main' = [main EXCEPT !.pc = IF running THEN "frame" ELSE "exited"]
  /\ UNCHANGED <<log_files, file_positions, log_buffers, error_buffers, running,
                 current_view, tailer, files, now, budget, hist_log, hist_err, cycle,
                 snap, stopped>>

\* lines 186-206: clear, getmaxyx, header, then the view is entered
M_Frame ==
  /\ main.pc = "frame"
  /\ \E size \in Terminals :
       LET h == size[1]
           w == size[2]
       IN main' =
            IF header_raises(h, w) THEN Crash("curses.error")
            ELSE IF current_view = "logs"
            THEN IF Len(log_files) = 0 THEN Crash("ZeroDivisionError")
                 ELSE [main EXCEPT !.pc = "panel", !.i = 1, !.height = h, !.width = w,
                                   !.key = "",
                                   !.log_height = (h - 4) \div Len(log_files)]
            ELSE [main EXCEPT !.pc = IF Len(log_files) = 0 THEN "errors_draw"
                                     ELSE "errors_iter",
                              !.i = 1, !.height = h, !.width = w, !.key = "",
                              !.all_errors = <<>>, !.total_errors = 0]
  /\ UNCHANGED <<log_files, file_positions, log_buffers, error_buffers, running,
                 current_view, tailer, files, now, budget, hist_log, hist_err, cycle,
                 snap, stopped>>

\* display_logs, lines 125-135: the box, the title and the error badge
M_Panel ==
  /\ main.pc = "panel"
  /\ LET n == log_files[main.i]
         y == 2 + (main.i - 1) * main.log_height
     IN main' = IF panel_raises(n, y, main.height, main.width)
                THEN Crash("curses.error")
                ELSE [main EXCEPT !.pc = "logs_iter"]
  /\ UNCHANGED <<log_files, file_positions, log_buffers, error_buffers, running,
                 current_view, tailer, files, now, budget, hist_log, hist_err, cycle,
                 snap, stopped>>

\* line 138, list(self.log_buffers[name]): the iterator over the deque is
\* created and remembers the deque's mutation count
M_LogsIter ==
  /\ main.pc = "logs_iter"
  /\ main' = [main EXCEPT !.pc = "logs_list",
                          !.it_state = Len(hist_log[log_files[main.i]])]
  /\ UNCHANGED <<log_files, file_positions, log_buffers, error_buffers, running,
                 current_view, tailer, files, now, budget, hist_log, hist_err, cycle,
                 snap, stopped>>

\* line 138-153: the iteration ends; it raises RuntimeError (deque mutated
\* during iteration) when the tailer appended since the iterator was created,
\* which no lock in the code prevents.  Drawing the lines cannot raise.
M_LogsList ==
  /\ main.pc = "logs_list"
  /\ LET n == log_files[main.i]
     IN IF Len(hist_log[n]) # main.it_state
        THEN /\ main' = Crash("RuntimeError")
             /\ snap' = snap
        ELSE /\ main' = [main EXCEPT
                   !.pc = IF main.i = Len(log_files) THEN "getch" ELSE "panel",
                   !.i = IF main.i = Len(log_files) THEN 1 ELSE @ + 1,
                   !.drawn = @ \o log_rows(log_buffers[n], main.i, main.log_height,
                                           main.height)]
             /\ snap' = [name |-> n, buffer |-> "log", items |-> log_buffers[n],
                         pushes |-> Len(hist_log[n]), inflight |-> InFlight(n)]
  /\ UNCHANGED <<log_files, file_positions, log_buffers, error_buffers, running,
                 current_view, tailer, files, now, budget, hist_log, hist_err, cycle,
                 stopped>>

\* display_errors, line 160, list(errors): the iterator is created
M_ErrorsIter ==
  /\ main.pc = "errors_iter"
  /\ main' = [main EXCEPT !.pc = "errors_list",
                          !.it_state = Len(hist_err[log_files[main.i]])]
  /\ UNCHANGED <<log_files, file_positions, log_buffers, error_buffers, running,
                 current_view, tailer, files, now, budget, hist_log, hist_err, cycle,
                 snap, stopped>>

\* line 160, all_errors.extend(list(errors)): the iteration ends; after the
\* last source, line 163: all_errors.sort(reverse=True)
M_ErrorsList ==
  /\ main.pc = "errors_list"
  /\ LET n == log_files[main.i]
     IN IF Len(hist_err[n]) # main.it_state
        THEN /\ main' = Crash("RuntimeError")
             /\ snap' = snap
        ELSE /\ main' = [main EXCEPT
                   !.pc = IF main.i = Len(log_files) THEN "errors_sum" ELSE "errors_iter",
                   !.i = IF main.i = Len(log_files) THEN 1 ELSE @ + 1,
                   !.all_errors = IF main.i = Len(log_files)
                                  THEN sort_reverse(@ \o error_buffers[n])
                                  ELSE @ \o error_buffers[n]]
             /\ snap' = [name |-> n, buffer |-> "err", items |-> error_buffers[n],
                         pushes |-> Len(hist_err[n]), inflight |-> InFlight(n)]
  /\ UNCHANGED <<log_files, file_positions, log_buffers, error_buffers, running,
                 current_view, tailer, files, now, budget, hist_log, hist_err, cycle,
                 stopped>>

\* line 166, sum(len(errors) for errors in ...): one len() per source
M_ErrorsSum ==
  /\ main.pc = "errors_sum"
  /\ main' = [main EXCEPT
        !.pc = IF main.i = Len(log_files) THEN "errors_draw" ELSE "errors_sum",
        !.i = IF main.i = Len(log_files) THEN 1 ELSE @ + 1,
        !.total_errors = @ + Len(error_buffers[log_files[main.i]])]
  /\ UNCHANGED <<log_files, file_positions, log_buffers, error_buffers, running,
                 current_view, tailer, files, now, budget, hist_log, hist_err, cycle,
                 snap, stopped>>

\* lines 167-178: the box, the summary and the error lines
M_ErrorsDraw ==
  /\ main.pc = "errors_draw"
  /\ main' = IF summary_raises(main.height, main.width)
             THEN Crash("curses.error")
             ELSE [main EXCEPT !.pc = "getch",
                               !.drawn = error_rows(main.all_errors, main.height)]
  /\ UNCHANGED <<log_files, file_positions, log_buffers, error_buffers, running,
                 current_view, tailer, files, now, budget, hist_log, hist_err, cycle,
                 snap, stopped>>

\* a mutated key handler: 'e' also ends the run
handle_key_e_quits(key) ==
  /\ running' = (key \notin {"q", "e"})
  /\ current_view' = IF key = "e"
                     THEN (IF current_view = "logs" THEN "errors" ELSE "logs")
                     ELSE current_view

\* lines 213-216: what a key does to running and current_view
handle_key(key) ==
  /\ running' = (IF key = "q" THEN FALSE ELSE running)
  /\ current_view' = IF key = "e"
                     THEN (IF current_view = "logs" THEN "errors" ELSE "logs")
                     ELSE current_view

\* a mutated input step: the renderer empties the log buffers it has drawn
M_Getch_clears ==
  /\ main.pc = "getch"
  /\ \E key \in Keys :
       /\ handle_key(key)
       /\ main' = [main EXCEPT !.pc = "loop", !.key = key, !.height = 0, !.width = 0,
                               !.log_height = 0, !.it_state = 0,
                               !.all_errors = <<>>, !.total_errors = 0,
                               !.drawn = <<>>]
  /\ snap' = NoSnap
  /\ log_buffers' = [n \in Sources |-> <<>>]
  /\ UNCHANGED <<log_files, file_positions, error_buffers, tailer,
                 files, now, budget, hist_log, hist_err, cycle, stopped>>

\* lines 208-218: refresh, then getch and the key's effect
M_Getch ==
  /\ main.pc = "getch"
  /\ \E key \in Keys :
       /\ handle_key(key)
       /\ main' = [main EXCEPT !.pc = "loop", !.key = key, !.height = 0, !.width = 0,
                               !.log_height = 0, !.it_state = 0,
                               !.all_errors = <<>>, !.total_errors = 0,
                               !.drawn = <<>>]
  /\ snap' = NoSnap
  /\ UNCHANGED <<log_files, file_positions, log_buffers, error_buffers, tailer,
                 files, now, budget, hist_log, hist_err, cycle, stopped>>

InDisplay ==
  main.pc \in {"loop", "frame", "panel", "logs_iter", "logs_list", "errors_iter",
               "errors_list", "errors_sum", "errors_draw", "getch"}

\* lines 95-96: Ctrl-C while display_dashboard runs; self.running = False
M_Interrupt ==
  /\ InDisplay
  /\ running' = FALSE
  /\ main' = [main EXCEPT !.pc = "join", !.i = 1, !.exc = "KeyboardInterrupt"]
  /\ UNCHANGED <<log_files, file_positions, log_buffers, error_buffers,
                 current_view, tailer, files, now, budget, hist_log, hist_err, cycle,
                 snap, stopped>>

\* lines 97-98: for thread in threads: thread.join(); then the process exits
M_Join ==
  /\ main.pc = "join"
  /\ IF main.i > Len(log_files)
     THEN main' = [main EXCEPT !.pc = "exited"]
     ELSE /\ tailer[log_files[main.i]].pc = "done"
          /\ main' = [main EXCEPT !.i = @ + 1]
  /\ UNCHANGED <<log_files, file_positions, log_buffers, error_buffers, running,
                 current_view, tailer, files, now, budget, hist_log, hist_err, cycle,
                 snap, stopped>>

\* a second Ctrl-C, during the joins, is not caught: the process ends
M_InterruptJoin ==
  /\ main.pc = "join"
  /\ main' = [main EXCEPT !.pc = "crashed"]
  /\ UNCHANGED <<log_files, file_positions, log_buffers, error_buffers, running,
                 current_view, tailer, files, now, budget, hist_log, hist_err, cycle,
                 snap, stopped>>

start_monitoring ==
  \/ M_StartThread
  \/ M_Display
  \/ M_Interrupt
  \/ M_Join
  \/ M_InterruptJoin

display_dashboard ==
  \/ M_Loop
  \/ M_Frame
  \/ M_Panel
  \/ M_LogsIter
  \/ M_LogsList
  \/ M_ErrorsIter
  \/ M_ErrorsList
  \/ M_ErrorsSum
  \/ M_ErrorsDraw
  \/ M_Getch

Environment ==
  \E n \in Sources : EnvAppend(n) \/ EnvTruncate(n) \/ EnvRemove(n)

\* the program alone
NextProgram ==
  \/ \E n \in Sources : monitor_file(n)
  \/ start_monitoring
  \/ display_dashboard

\* the program and the processes that write its files
Next ==
  \/ NextProgram
  \/ Environment

Spec == Init /\ [][Next]_vars

\* the tailer threads, the writers of their files and the clock, with the
\* main thread past the start of the threads and not drawing
NextTail ==
  \/ \E n \in Sources : monitor_file(n)
  \/ M_StartThread
  \/ M_Display
  \/ Environment
  \/ Tick

SpecTail == InitTail /\ [][NextTail]_vars

\* one tailer and the writers of its file, around the buffers' capacity
NextRing ==
  \/ \E n \in Sources : monitor_file(n)
  \/ Environment

SpecRing == InitRing /\ [][NextRing]_vars

\* every thread that can take a step eventually takes one
Fairness ==
  /\ \A n \in Names : WF_vars(n \in Sources /\ monitor_file(n))
  /\ WF_vars(M_StartThread \/ M_Display \/ M_Join \/ display_dashboard)

SpecLive == InitLive /\ [][NextProgram]_vars /\ Fairness

\* the renderer alone, on buffers that do not change while it draws
SpecView == InitView /\ [][display_dashboard]_vars

\* ---------------------------------------------------------- the claims

\* C1: for every source, the log buffer never holds more than 1000 entries
\* and the error buffer never more than 500, and each buffer is exactly the
\* last 1000 (500) items pushed to it, in push order.
C1_RingBuffer ==
  \A n \in Sources :
     /\ Len(log_buffers[n]) <= 1000
     /\ Len(error_buffers[n]) <= 500
     /\ log_buffers[n] = LastN(hist_log[n], 1000)
     /\ error_buffers[n] = LastN(hist_err[n], 500)

\* more than the capacity has been pushed to both buffers of a source
C1_Witness ==
  \E n \in Sources :
     /\ Len(hist_log[n]) > 1000
     /\ Len(hist_err[n]) > 500
     /\ log_buffers[n][1] # hist_log[n][1]

\* C2: a list(...) of a source's buffer taken by the renderer while the
\* tailer is appending never raises and returns the buffer as it was after
\* some whole number of pushes: the content before or after the push in
\* flight, never a part of it.
C2_SnapshotAtomic ==
  /\ main.exc # "RuntimeError"
  /\ snap # NoSnap =>
       snap.items = IF snap.buffer = "log"
                    THEN LastN(SubSeq(hist_log[snap.name], 1, snap.pushes), 1000)
                    ELSE LastN(SubSeq(hist_err[snap.name], 1, snap.pushes), 500)

\* the line contains "error", whatever the case of its letters
ContainsError(line) ==
  \E i \in 1..(Len(line) - 4) :
     /\ line[i] \in {"e", "E"}
     /\ line[i + 1] \in {"r", "R"}
     /\ line[i + 2] \in {"r", "R"}
     /\ line[i + 3] \in {"o", "O"}
     /\ line[i + 4] \in {"r", "R"}

\* t is s without its leading and trailing whitespace
IsTrimOf(t, s) ==
  /\ t = <<>> \/ (t[1] \notin Whitespace /\ t[Len(t)] \notin Whitespace)
  /\ \E i \in 0..Len(s) : \E j \in 0..(Len(s) - i) :
        /\ t = SubSeq(s, i + 1, Len(s) - j)
        /\ \A k \in 1..i : s[k] \in Whitespace
        /\ \A k \in (Len(s) - j + 1)..Len(s) : s[k] \in Whitespace

\* the error entries a poll owes for lines L whose log entries are P
RECURSIVE ExpectedErrors(_, _, _)
ExpectedErrors(L, P, n) ==
  IF L = <<>> THEN <<>>
  ELSE (IF ContainsError(Head(L))
        THEN <<[fmt |-> "err", ts |-> Head(P).ts, name |-> n, text |-> Head(P).text]>>
        ELSE <<>>) \o ExpectedErrors(Tail(L), Tail(P), n)

\* the items pushed to the log and to the error buffer of n since its poll began
PollLog(n) == SubSeq(hist_log[n], cycle[n].log0 + 1, Len(hist_log[n]))
PollErr(n) == SubSeq(hist_err[n], cycle[n].err0 + 1, Len(hist_err[n]))

\* a poll that read its file has pushed everything it read
PollDone(n) ==
  /\ cycle[n].polled
  /\ ~cycle[n].failed
  /\ tailer[n].pc \in {"tell", "sleep_01"}

\* C3: a poll that read lines L1..Ln has pushed exactly n log entries, the
\* i-th holding the trimmed text of Li, and exactly one error entry for each
\* Li that contains "error" in any case, in file order, tagged with the
\* source's name and with the timestamp and text of Li's log entry.
C3_PollPushes ==
  \A n \in Sources :
     PollDone(n) =>
       /\ Len(PollLog(n)) = Len(cycle[n].lines)
       /\ \A i \in 1..Len(cycle[n].lines) :
             /\ PollLog(n)[i].fmt = "log"
             /\ IsTrimOf(PollLog(n)[i].text, cycle[n].lines[i])
       /\ PollErr(n) = ExpectedErrors(cycle[n].lines, PollLog(n), n)

\* the poll of the spec's example: three lines read, one of them an error
C3_Witness ==
  \E n \in Sources :
     /\ PollDone(n)
     /\ Len(cycle[n].lines) = 3
     /\ Len(PollErr(n)) = 1
     /\ PollErr(n)[1].text = <<"E", "R", "R", "O", "R", " ", "b">>

\* C4: a poll that finds the recorded offset greater than the size of the
\* file reads the file from position 0, and when it is done the offset is
\* within the file.
C4_TruncationResets ==
  \A n \in Sources :
     (cycle[n].polled /\ ~cycle[n].failed /\ cycle[n].pos0 > cycle[n].size0) =>
        /\ cycle[n].start = 0
        /\ tailer[n].pc = "sleep_01" => file_positions[n] <= cycle[n].size0

\* the state of source n that the failed poll of n must leave as it is
OthersOf(n) ==
  [m \in Sources \ {n} |-> <<log_buffers[m], error_buffers[m], file_positions[m]>>]

\* C8 (what the failed poll has pushed): once the open or the read of a poll
\* has raised, the poll pushes nothing but one "Error reading file: <cause>"
\* to the log buffer and then one to the error buffer, leaves the offset as
\* it was, and goes to the 1 s sleep before the next loop check.
C8_FailedPoll ==
  \A n \in Sources :
     cycle[n].failed =>
       /\ file_positions[n] = cycle[n].pos0
       /\ tailer[n].pc \in {"except", "except_2", "sleep_1"}
       /\ PollLog(n) = IF tailer[n].pc = "except" THEN <<>>
                       ELSE <<error_msg(cycle[n].cause)>>
       /\ PollErr(n) = IF tailer[n].pc = "sleep_1" THEN <<error_msg(cycle[n].cause)>>
                       ELSE <<>>

\* C8: when opening or reading a source's file raises, the tailer pushes
\* exactly one synthetic entry to the source's log buffer and one to its error
\* buffer, leaves its offset unchanged, retries after the backoff, and none of
\* its steps changes another source's buffers or offset.
C8_ReadErrorContained ==
  /\ []C8_FailedPoll
  /\ [][\A n \in Sources :
          ((cycle[n].failed \/ cycle'[n].failed) /\ tailer'[n] # tailer[n])
             => OthersOf(n)' = OthersOf(n)]_vars

\* a failed poll of one of two sources is over: both messages are pushed
C8_Witness ==
  \E n \in Sources :
     /\ cycle[n].failed
     /\ cycle[n].cause = "OSError"
     /\ tailer[n].pc = "sleep_1"
     /\ Len(hist_err[n]) > 0
     /\ Sources # {n}

\* the main thread is gone: main() returned or an exception ended it
ProcessEnded == main.pc \in {"exited", "crashed"}

\* every tailer thread has left monitor_file, or the process has ended and
\* taken its daemon threads with it
TailersStopped == ProcessEnded \/ \A n \in Sources : tailer[n].pc = "done"

\* C5 (what a tailer still does once the flag is false): it begins at most one
\* sleep and at most one read, those it was already committed to when the
\* flag fell, and once it has seen the flag it does nothing more.
C5_AfterStop ==
  \A n \in Sources :
     /\ stopped[n].sleeps <= 1
     /\ stopped[n].reads <= 1
     /\ tailer[n].pc = "done" => ~running

\* C5: after the running flag becomes false every tailer stops: it reaches
\* its loop check after at most one sleep, starts no read after that, and
\* terminates, whatever it was doing when the flag fell.
C5_TailersStop ==
  /\ []C5_AfterStop
  /\ (~running) ~> TailersStopped

\* a tailer that was committed to a sleep when the flag fell has slept once
\* and then left its loop
C5_Witness ==
  \E n \in Sources :
     /\ ~running
     /\ tailer[n].pc = "done"
     /\ stopped[n].sleeps = 1
     /\ main.pc = "exited"

\* the positions of the render loop at which a frame is being drawn or its
\* key is being read
Drawing ==
  main.pc \in {"frame", "panel", "logs_iter", "logs_list", "errors_iter",
               "errors_list", "errors_sum", "errors_draw", "getch"}

\* C6: once 'q' has been read the renderer draws no further frame, and the
\* process ends: display_dashboard and start_monitoring return and main()
\* exits (or a Ctrl-C arriving meanwhile ends it through the joins).
C6_QuitEndsRendering ==
  /\ [](main.key = "q" => ~Drawing)
  /\ (main.key = "q") ~> (main.pc = "exited" \/ main.exc = "KeyboardInterrupt")

\* 'q' was read in the error view and the process has exited
C6_Witness ==
  /\ main.key = "q"
  /\ main.pc = "exited"
  /\ main.exc = ""
  /\ current_view = "errors"

\* C7: the input step of a render tick changes running and the view only as
\* the key says ('q': running becomes false; 'e': the view switches; anything
\* else or no key: nothing), and changes no buffer and no offset.
C7_KeyEffects ==
  [][(main.pc = "getch" /\ main'.pc = "loop") =>
       /\ main'.key = "q" => (~running' /\ current_view' = current_view)
       /\ main'.key = "e" =>
            /\ running' = running
            /\ current_view' = (IF current_view = "logs" THEN "errors" ELSE "logs")
       /\ main'.key \notin {"q", "e"} =>
            (running' = running /\ current_view' = current_view)
       /\ log_buffers' = log_buffers
       /\ error_buffers' = error_buffers
       /\ file_positions' = file_positions]_vars

\* 'e' has switched the view to the errors and the run goes on
C7_Witness ==
  /\ main.pc = "loop"
  /\ main.key = "e"
  /\ current_view = "errors"
  /\ running

\* the iteration of a source's buffer by the renderer was ended by the
\* "Error reading file" entry which that source's failing tailer pushed
\* while the iteration was under way
RendererEndedByFailure ==
  /\ main.pc = "crashed"
  /\ main.exc = "RuntimeError"
  /\ LET n == log_files[main.i]
         h == IF current_view = "logs" THEN hist_log[n] ELSE hist_err[n]
     IN \E k \in (main.it_state + 1)..Len(h) : h[k].fmt = "msg"

\* C9: a failure in one source's tailer (missing file, read error,
\* truncation) ends neither that tailer, nor another one, nor the renderer:
\* no tailer has left its loop while running is true, and the handling of a
\* failure never ends the main thread (and with it every tailer thread).
C9_FailuresContained ==
  /\ \A n \in Sources : tailer[n].pc = "done" => ~running
  /\ ~RendererEndedByFailure

\* C10: whatever the loaded configuration and the state of the sources, the
\* renderer never raises and the process does not end before 'q': the main
\* thread ends only by 'q', by Ctrl-C, or (not a matter of the configuration
\* or of the sources) by a terminal too small for the header.
C10_RendererKeepsRunning ==
  ProcessEnded => \/ main.key = "q"
                  \/ main.exc \in {"KeyboardInterrupt", "curses.error"}

\* C11: for every terminal height and width, drawing a frame never raises:
\* a write outside the terminal area is clipped or ignored, so the main
\* thread is never ended by curses.error.
C11_DrawNeverRaises ==
  main.exc # "curses.error"

\* the entries which a tailer pushed because its file was not there
MissingFileEntries(n) ==
  {k \in 1..Len(hist_err[n]) :
     hist_err[n][k] = error_msg("FileNotFoundError")}

\* C12: while a source's file does not exist its tailer changes nothing: the
\* absence of the file never produces an error entry in the source's buffers
\* (the tailer only backs off and retries).
C12_MissingFileSilent ==
  \A n \in Sources : MissingFileEntries(n) = {}

\* the snapshots of the error buffers of the sources i.., concatenated
RECURSIVE MergedErrors(_)
MergedErrors(i) ==
  IF i > Len(log_files) THEN <<>>
  ELSE error_buffers[log_files[i]] \o MergedErrors(i + 1)

\* how often x occurs in s
Count(s, x) == Cardinality({k \in 1..Len(s) : s[k] = x})

\* the entry carries an HH:MM:SS timestamp
HasTimestamp(x) == x.fmt \in {"log", "err"}

\* the entries of the rows drawn, top to bottom
DrawnEntries == [k \in 1..Len(main.drawn) |-> main.drawn[k].entry]

\* the error view has been drawn and its key not yet read
ErrorViewDrawn ==
  /\ main.pc = "getch"
  /\ current_view = "errors"

\* C13: the error view draws the concatenation of the snapshots of all error
\* buffers in descending order of the entries' HH:MM:SS timestamp strings:
\* every entry has its place by its timestamp, an entry above another one has
\* a timestamp string not less than the other's, and the rows drawn are the
\* first entries of that order that fit the panel.
C13_ErrorViewOrder ==
  ErrorViewDrawn =>
    LET all == main.all_errors
        rows == IF main.height - 5 < Len(all) THEN main.height - 5 ELSE Len(all)
    IN /\ Len(all) = Len(MergedErrors(1))
       /\ \A k \in 1..Len(all) : Count(all, all[k]) = Count(MergedErrors(1), all[k])
       /\ DrawnEntries = SubSeq(all, 1, rows)
       /\ \A i \in 1..Len(all) : \A j \in (i + 1)..Len(all) :
            /\ HasTimestamp(all[i])
            /\ HasTimestamp(all[j])
            /\ ~str_less(timestamp_text(all[i].ts), timestamp_text(all[j].ts))

\* the line ends with its terminator
Terminated(line) == line # <<>> /\ line[Len(line)] = "\n"

\* the text of s up to and including its last terminator is this long
RECURSIVE CompleteLen(_)
CompleteLen(s) ==
  IF s = <<>> THEN 0
  ELSE IF s[Len(s)] = "\n" THEN Len(s)
  ELSE CompleteLen(SubSeq(s, 1, Len(s) - 1))

\* C14: a trailing line that has no terminator yet is not consumed: every
\* line a poll takes from the file ends with its terminator, and the offset a
\* poll records lies at the end of a complete line of what it read.
C14_PartialLineKept ==
  \A n \in Sources :
     /\ \A k \in 1..Len(cycle[n].lines) : Terminated(cycle[n].lines[k])
     /\ (cycle[n].lines # <<>> /\ tailer[n].pc = "sleep_01")
          => file_positions[n] <= CompleteLen(SubSeq(files[n].data, 1, cycle[n].size0))

\* the file of n has only been appended to and no read of it has failed
AppendOnly(n) ==
  /\ ~files[n].rewritten
  /\ tailer[n].pc \notin {"except", "except_2"}
  /\ \A k \in 1..Len(hist_log[n]) : hist_log[n][k].fmt = "log"

\* the tailer of n is between two polls: all it read is pushed and recorded
BetweenPolls(n) == tailer[n].pc \in {"while", "exists", "open", "sleep_01", "sleep_1"}

\* C15: on a file that is only appended to and read without error, every
\* line of the file is pushed exactly once and in file order: between two
\* polls the entries pushed so far are, one for one and in order, the lines
\* of the file up to the recorded offset, and that offset is within the file.
C15_EveryLineOnce ==
  \A n \in Sources :
     (AppendOnly(n) /\ BetweenPolls(n)) =>
        LET done == readlines(SubSeq(files[n].data, 1, file_positions[n]))
        IN /\ file_positions[n] <= Len(files[n].data)
           /\ Len(hist_log[n]) = Len(done)
           /\ \A k \in 1..Len(done) : hist_log[n][k].text = strip(done[k])

\* C16 (the start): a source whose tailer has not run has offset 0
C16_StartsAtZero ==
  \A n \in Sources : tailer[n].pc = "unstarted" => file_positions[n] = 0

\* C16: a source's offset starts at 0, and whatever happens to the file
\* (appends, truncations, removals, read errors) a step that changes it is
\* the offset update of that source's own tailer and either increases it or
\* resets it to 0 after a poll that found the offset beyond the file's size.
C16_OffsetMonotone ==
  /\ []C16_StartsAtZero
  /\ [][\A n \in Sources :
          file_positions'[n] # file_positions[n] =>
             /\ tailer[n].pc = "tell"
             /\ tailer'[n].pc = "sleep_01"
             /\ \A m \in Sources \ {n} :
                   tailer'[m] = tailer[m] /\ file_positions'[m] = file_positions[m]
             /\ main' = main
             /\ \/ file_positions'[n] > file_positions[n]
                \/ /\ file_positions'[n] = 0
                   /\ cycle[n].pos0 > cycle[n].size0]_vars

\* an offset was advanced, its file was then truncated or replaced, and a
\* later poll of it has run to its end
C16_Witness ==
  \E n \in Sources :
     /\ file_positions[n] > 0
     /\ files[n].rewritten
     /\ cycle[n].polled
     /\ cycle[n].pos0 > 0
     /\ tailer[n].pc \in {"sleep_01", "sleep_1"}

\* the log view has been drawn and its key not yet read
LogViewDrawn ==
  /\ main.pc = "getch"
  /\ current_view = "logs"

\* the rows drawn for the i-th panel, top to bottom
RECURSIVE PanelRows(_, _)
PanelRows(d, i) ==
  IF d = <<>> THEN <<>>
  ELSE (IF Head(d).panel = i THEN <<Head(d)>> ELSE <<>>) \o PanelRows(Tail(d), i)

\* C17: in the log view, whatever the terminal height and the number of
\* sources, the lines drawn in a source's panel are the most recent lines of
\* its log buffer, oldest at the top, no more of them than the panel has rows
\* inside its border, and each on a row inside that panel.
C17_LogViewSuffix ==
  LogViewDrawn =>
    \A i \in 1..Len(log_files) :
       LET n == log_files[i]
           rows == PanelRows(main.drawn, i)
           top == 2 + (i - 1) * main.log_height
       IN /\ [k \in 1..Len(rows) |-> rows[k].entry] = LastN(log_buffers[n], Len(rows))
          /\ Len(rows) <= main.log_height - 2
          /\ \A k \in 1..Len(rows) :
                /\ rows[k].row > top
                /\ rows[k].row < top + main.log_height - 1
                /\ k > 1 => rows[k].row = rows[k - 1].row + 1

\* C18: the total the error view shows in its title is the number of entries
\* of the merged error sequence built in the same frame, whatever the tailers
\* append while the frame is drawn.
C18_TotalMatchesMerged ==
  (main.pc = "errors_draw" \/ ErrorViewDrawn) =>
     main.total_errors = Len(main.all_errors)

\* the positions of monitor_file at which it appends to a buffer
Appending(n) == tailer[n].pc \in {"line", "error_line", "except", "except_2"}

\* C19: a source's log buffer and error buffer are appended to only by that
\* source's own tailer and only read by the renderer: a step that changes a
\* buffer of n is an append step of the tailer of n, which changes no other
\* source's buffers and is no step of another tailer or of the main thread,
\* and a step of the main thread changes no buffer and no offset.
C19_SingleWriter ==
  [][/\ \A n \in Sources :
          (log_buffers'[n] # log_buffers[n] \/ error_buffers'[n] # error_buffers[n])
             => /\ Appending(n)
                /\ tailer'[n] # tailer[n]
                /\ main' = main
                /\ \A m \in Sources \ {n} :
                      /\ tailer'[m] = tailer[m]
                      /\ log_buffers'[m] = log_buffers[m]
                      /\ error_buffers'[m] = error_buffers[m]
     /\ main' # main =>
          /\ log_buffers' = log_buffers
          /\ error_buffers' = error_buffers
          /\ file_positions' = file_positions]_vars

\* both tailers have pushed to their buffers and the renderer has drawn a
\* frame of them, whose key it is about to read
C19_Witness ==
  /\ Cardinality(Sources) = 2
  /\ \A n \in Sources : log_buffers[n] # <<>>
  /\ main.pc = "getch"
  /\ main.drawn # <<>>

\* C20 (the start): running is true as long as the main thread has not
\* entered the render loop
C20_TrueFromConstruction ==
  main.pc = "start" => running

\* C20: running is true from construction; a step that changes it turns it
\* from true to false and is the main thread's handling of 'q' or of a
\* keyboard interrupt, so it changes at most once and no tailer and no later
\* step sets it back; the view changes only by 'e' while running is true.
C20_RunningFallsOnce ==
  /\ []C20_TrueFromConstruction
  /\ [][/\ running' # running =>
             /\ running
             /\ ~running'
             /\ \/ main.pc = "getch" /\ main'.key = "q"
                \/ main.exc = "" /\ main'.exc = "KeyboardInterrupt"
        /\ current_view' # current_view =>
             /\ running
             /\ running'
             /\ main.pc = "getch"
             /\ main'.key = "e"]_vars

\* 'e' has put the view on the errors and a keyboard interrupt has then
\* turned running off, which a tailer has seen
C20_Witness ==
  /\ ~running
  /\ main.exc = "KeyboardInterrupt"
  /\ main.key = "e"
  /\ current_view = "errors"
  /\ \E n \in Sources : tailer[n].pc = "done"

====
